---- MODULE Spec2Model ----
(***************************************************************************)
(* Model of the legal-source discovery and retrieval core:                 *)
(*   backend/crawler/legal_crawler.py  (LegalCrawler)                      *)
(*   backend/rag/vector_store.py       (DocumentChunker, VectorStore,      *)
(*                                      RAGPipeline)                       *)
(*                                                                         *)
(* Spec      one crawl run of LegalCrawler.discover_legal_sources, with    *)
(*           the crawl_url coroutines of a batch interleaving at their     *)
(*           suspension points (asyncio.sleep, the transport call).        *)
(* LiveSpec  Spec with the fairness of the asyncio event loop.             *)
(* RagSpec   the chunker, the ingestion and the retrieval of RAGPipeline.  *)
(***************************************************************************)
EXTENDS Integers, Sequences, FiniteSets, TLC

(***************************************************************************)
(* Bounds of the model.                                                    *)
(***************************************************************************)
NumUrls == 128          \* URLs of the modelled web are 1..NumUrls
MaxSeedLen == 2         \* longest seed list drawn over the small URLs
SeedLenOverCap == 51    \* length of the long seed list that exceeds the queue cap
SeedLenOverMax == 111   \* length of the long seed list that can exceed max_urls
TicksPerSecond == 2     \* clock resolution
MaxTextLen == 5         \* longest text given to chunk_text
MaxChunkSize == 4       \* chunk_size is drawn from 1..MaxChunkSize
MaxOverlap == 2         \* overlap is drawn from 0..MaxOverlap
MaxDocLen == 3          \* longest document given to process_document
MaxIngest == 2          \* process_document calls in one behaviour
MaxRuns == 2            \* runs of discover_legal_sources on one crawler
MaxUploads == 2         \* documents uploaded in one behaviour
MaxMatches == 3         \* most matches in one answer of the index (top_k)

(***************************************************************************)
(* Constants of the program.                                               *)
(***************************************************************************)
max_urls == 100         \* discover_legal_sources: max_urls = 100
BatchSize == 10         \* urls_to_crawl[:10]
QueueCap == 50          \* len(urls_to_crawl) < 50
MinIntervalSeconds == 1 \* "< 1" and asyncio.sleep(1) in crawl_url
BatchPauseSeconds == 1  \* asyncio.sleep(1) after every batch
MinKeywords == 3        \* keyword_matches >= 3
HttpOk == 200           \* response.status != 200
MinScore == 70          \* min_score = 0.7, in hundredths
DigestHexDigits == 8    \* hexdigest()[:8]
UnsupportedMediaType == 415   \* status_code=415
InternalServerError == 500    \* status_code=500
NotFound == 404               \* status_code=404

MinInterval == MinIntervalSeconds * TicksPerSecond
BatchPause == BatchPauseSeconds * TicksPerSecond

VARIABLES
    \* ---- LegalCrawler (fields of the object) ----
    crawled_urls,        \* self.crawled_urls: set of URLs
    rate_limits,         \* self.rate_limits: domain -> ticks since the recorded time.time()
    \* ---- discover_legal_sources (locals of the running coroutine) ----
    pc,                  \* "start" | "gather" | "sleep" | "done" | "raised"
    seed_urls,           \* the argument
    urls_to_crawl,       \* pending queue
    discovered_sources,  \* accepted LegalSources
    crawled_count,
    tasks,               \* the crawl_url coroutines of the current batch
    sleepLeft,           \* ticks left of the asyncio.sleep(1) after a batch
    \* ---- observation (history) ----
    transportAge,        \* domain -> ticks since the last transport call began
    minGap,              \* domain -> smallest interval seen between two transport calls
    enqCount,            \* URL -> times it entered urls_to_crawl (capped at 2)
    fetchCount           \* URL -> times a transport call began for it (capped at 2)

VARIABLES
    \* ---- DocumentChunker ----
    chunk_size,          \* self.chunk_size (characters)
    overlap,             \* self.overlap (words)
    text,                \* the text given to chunk_text
    chunks,              \* the list chunk_text returned
    chunkPc,             \* "idle" | "input" | "chunked" | "rechunked"
    \* ---- VectorStore / RAGPipeline.process_document ----
    index,               \* the vector index: chunk id -> stored metadata
    ingestCount,         \* process_document calls made
    lastIngest,          \* observation: the last process_document call
    firstIds,            \* observation: cleaned text -> ids upserted by its first successful ingestion
    \* ---- RAGPipeline.retrieve_relevant_chunks ----
    indexAnswer,         \* observation: what the embedding and the index answered
    retrieved,           \* the list retrieve_relevant_chunks returned
    queryPc              \* "idle" | "ready" | "done"

VARIABLES
    \* ---- runs of discover_legal_sources on one LegalCrawler ----
    run,                 \* number of the current run (0 when no crawl is modelled)
    firstRun,            \* observation: what the first run enqueued, fetched and returned
    \* ---- a call of process_html on a fresh LegalCrawler ----
    call,                \* the arguments: [url, html, malformed]
    callResult,          \* what the call and the methods it uses returned
    callPc               \* "idle" | "called" | "returned"

VARIABLES
    \* ---- the API process (main.py) ----
    ai_service,          \* the service the module chose: "AIService" | "MockAIService"
    plans_db,            \* plan id -> stored plan record
    documents_db,        \* plan id -> content type of the stored document
    background,          \* plan id -> "scheduled", or how process_document ended
    nextId,              \* the plan ids are 1, 2, ... in the order uuid4 makes them
    lastResponse             \* observation: the answer to the last request

apiVars == <<ai_service, plans_db, documents_db, background, nextId, lastResponse>>
runVars == <<run, firstRun>>
pureVars == <<call, callResult, callPc>>
crawlVars == <<runVars, crawled_urls, rate_limits, pc, seed_urls, urls_to_crawl,
               discovered_sources, crawled_count, tasks, sleepLeft,
               transportAge, minGap, enqCount, fetchCount>>
chunkVars == <<chunk_size, overlap, text, chunks, chunkPc>>
ingestVars == <<index, ingestCount, lastIngest, firstIds>>
queryVars == <<indexAnswer, retrieved, queryPc>>
ragVars == <<chunkVars, ingestVars, queryVars>>

vars == <<crawlVars, ragVars, pureVars, apiVars>>

(***************************************************************************)
(* Helpers.                                                                *)
(***************************************************************************)
Min(a, b) == IF a < b THEN a ELSE b
Max(a, b) == IF a > b THEN a ELSE b

\* Python slices q[:n] and q[n:]
Take_Newest(q, n) == SubSeq(q, Max(Len(q) - n, 0) + 1, Len(q))
Take(q, n) == SubSeq(q, 1, Min(n, Len(q)))
Drop_KeepsBatch(q, n) == q
Drop(q, n) == SubSeq(q, n + 1, Len(q))

\* a counter map with key k counted once more (capped at 2)
Bump(m, k) == [x \in DOMAIN m \cup {k} |->
                 IF x = k THEN (IF k \in DOMAIN m THEN Min(m[k] + 1, 2) ELSE 1)
                 ELSE m[x]]

\* the counter map of a sequence: how often each element occurs (capped at 2)
CountAll(q) == [x \in {q[i] : i \in DOMAIN q} |->
                  Min(Cardinality({i \in DOMAIN q : q[i] = x}), 2)]

EmptyMap == [x \in {} |-> 0]

(***************************************************************************)
(* The modelled web.  URLs 1..4 are the small URLs (three of them on one   *)
(* host), URL 5 is a link-rich portal page, the others are filler pages on *)
(* hosts of their own.                                                     *)
(***************************************************************************)
Urls == 1..NumUrls
SmallUrls == 1..4
HubUrl == Cardinality(SmallUrls) + 1
FirstFiller == HubUrl + 1
\* the portal page names more links than one batch holds
HubLinkCount == BatchSize + 2
HubLinks == [i \in 1..HubLinkCount |-> NumUrls - HubLinkCount + i]

\* the netlocs of the URLs that process_html is called with directly; they
\* are the URLs after those of the crawl
ProbeHosts ==
    << <<"example", "gov">>,               \* https://example.gov/llc-guide
       <<"WWW", "IRS", "GOV">>,
       <<"www", "irs", "gov:443">>,        \* a URL with an explicit port
       <<"www", "courts", "ca", "gov">>,
       <<"www", "ftb", "ca", "gov">>,
       <<"law", "justia", "com">>,
       <<"justia", "com">>,
       <<"texas", "state", "us">>,
       <<"www", "texas", "state", "us">>,
       <<"www", "state", "tx", "us">>,
       <<"www", "gov", "uk">>,
       <<"example", "com">>,
       <<"www", "uscourts", "gov">>,
       <<"www", "ca", "courts", "gov">> >>
ProbeUrls == {NumUrls + i : i \in DOMAIN ProbeHosts}

\* urlparse(url).netloc, as the sequence of its dot-separated labels
Host(u) ==
    IF u > NumUrls THEN ProbeHosts[u - NumUrls]
    ELSE CASE u \in {1, 2, 3} -> <<"www", "irs", "gov">>
           [] u = 4           -> <<"example", "com">>
           [] u = HubUrl      -> <<"law", "justia", "com">>
           [] OTHER           -> <<ToString(u), "gov">>

\* str.lower() on the words and labels that occur
Lower(w) ==
    CASE w = "WWW" -> "www" [] w = "IRS" -> "irs" [] w = "GOV" -> "gov"
      [] w = "LLC" -> "llc" [] w = "Taxes" -> "taxes"
      [] w = "California" -> "california" [] w = "New York" -> "new york"
      [] OTHER -> w

\* str.title() on the labels that occur
Title(w) ==
    CASE w = "texas" -> "Texas" [] w = "www" -> "Www" [] w = "example" -> "Example"
      [] w = "law" -> "Law" [] w = "justia" -> "Justia" [] w = "tx" -> "Tx"
      [] OTHER -> w

\* the label without a port: "gov:443" is the label "gov" of the hostname
StripPort(w) == CASE w = "gov:443" -> "gov" [] OTHER -> w

\* the terms t with "t in w" for a lower-case word w of a text
SubstringsOf(w) ==
    CASE w = "incorporation" -> {"incorporation", "corporation"}
      [] w = "taxes"         -> {"tax"}
      [] w = "first"         -> {"irs"}
      [] w = "franchise tax" -> {"franchise tax", "tax"}
      [] OTHER               -> {w}

\* the words a page given to process_html directly is written with
ProbeWords == {"LLC", "Taxes", "incorporation", "first", "blog",
               "California", "New York", "texas"}

\* the page served at a URL: the legal keywords occurring in its text, the
\* hrefs of its <a> elements, and the hrefs of anchor markup that occurs in
\* its text as escaped markup (&lt;a href=...&gt;), in document order
Page(u) ==
    CASE u = 1      -> [keywords |-> {"llc", "tax", "filing"},
                        anchors |-> <<2, 6>>, escaped |-> <<1, 2, FirstFiller + 1>>]
      [] u = 2      -> [keywords |-> {"llc", "tax", "irs", "court"},
                        anchors |-> <<1>>, escaped |-> <<1, 4, 3, 3>>]
      [] u = 3      -> [keywords |-> {"llc", "tax"},
                        anchors |-> <<1>>, escaped |-> <<>>]
      [] u = 4      -> [keywords |-> {"contract", "patent", "trademark", "blog"},
                        anchors |-> <<>>, escaped |-> <<2>>]
      [] u = HubUrl -> [keywords |-> {"statute", "court", "lawsuit"},
                        anchors |-> <<>>, escaped |-> HubLinks]
      [] OTHER      -> [keywords |-> {"llc", "tax", "filing"},
                        anchors |-> <<>>, escaped |-> <<>>]

\* how a transport call for a URL can end:
\*   "ok"         status 200, body delivered
\*   "status"     a non-200 status
\*   "error"      session.get raises (timeout, connection error)
\*   "html_error" status 200, but processing the body raises
\* the servers of the small URLs are unreliable, each in its own way
FetchOutcomes(u) ==
    CASE u = 1 -> {"ok", "error"}
      [] u = 2 -> {"ok", "status"}
      [] u = 3 -> {"ok", "html_error"}
      [] u = 4 -> {"ok", "error"}
      [] OTHER -> {"ok"}

(***************************************************************************)
(* LegalCrawler: pure methods.                                             *)
(***************************************************************************)
SourceTypes_CourtFirst == <<"court", "government", "legal_portal">>
SourceTypes == <<"government", "court", "legal_portal">>

\* self.legal_domains: every pattern is  .*\.<suffix>$ ; a pattern is kept
\* as the label sequence of its suffix
legal_domains ==
    [government   |-> << <<"gov">>, <<"ca", "gov">>, <<"state", "us">>,
                         <<"courts", "gov">>, <<"ftb", "ca", "gov">>,
                         <<"sos", "ca", "gov">> >>,
     court        |-> << <<"courts", "gov">>, <<"court", "gov">>,
                         <<"uscourts", "gov">>, <<"ca", "courts", "gov">> >>,
     legal_portal |-> << <<"justia", "com">>, <<"findlaw", "com">>,
                         <<"law", "cornell", "edu">>, <<"nolo", "com">> >>]

\* re.match(r'.*\.<suffix>$', domain): the host ends with ".<suffix>"
PatternMatches(suffix, host) ==
    /\ Len(host) > Len(suffix)
    /\ SubSeq(host, Len(host) - Len(suffix) + 1, Len(host)) = suffix

legal_keywords ==
    {"incorporation", "llc", "corporation", "partnership", "business license",
     "filing", "registration", "compliance", "regulation", "statute",
     "court", "litigation", "lawsuit", "contract", "agreement",
     "tax", "irs", "ftb", "franchise tax", "employment law",
     "intellectual property", "patent", "trademark", "copyright"}

\* "t in content.lower()" for a term t
Occurs(t, content) == \E w \in content.keywords : t \in SubstringsOf(Lower(w))

\* urlparse(url).netloc.lower()
LowerNetloc(u) == [i \in DOMAIN Host(u) |-> Lower(Host(u)[i])]

\* is_legal_domain: the first category with a matching pattern, else None
is_legal_domain(u) ==
    LET hit(i) == \E j \in 1..Len(legal_domains[SourceTypes[i]]) :
                     PatternMatches(legal_domains[SourceTypes[i]][j], LowerNetloc(u))
    IN  IF \E i \in 1..Len(SourceTypes) : hit(i)
        THEN SourceTypes[CHOOSE i \in 1..Len(SourceTypes) :
                           hit(i) /\ \A k \in 1..(i - 1) : ~hit(k)]
        ELSE "None"

determine_authority_level_PortalHigh(source_type) ==
    CASE source_type = "government"   -> "high"
      [] source_type = "court"        -> "high"
      [] source_type = "legal_portal" -> "high"
      [] OTHER                        -> "low"

determine_authority_level(source_type) ==
    CASE source_type = "government"   -> "high"
      [] source_type = "court"        -> "high"
      [] source_type = "legal_portal" -> "medium"
      [] OTHER                        -> "low"

\* clean_content: soup.get_text() keeps the text of the page and drops its
\* elements, so the <a> elements are gone; escaped markup is text and is
\* returned decoded, as literal anchor markup
clean_content(html) == [keywords |-> html.keywords, markup |-> html.escaped]

is_legal_content_MoreThanThreshold(content) ==
    Cardinality({keyword \in legal_keywords : Occurs(keyword, content)}) > MinKeywords

is_legal_content(content) ==
    Cardinality({keyword \in legal_keywords : Occurs(keyword, content)}) >= MinKeywords

\* "'.<l1>.<l2>' in domain": the labels occur in a row after a dot, the
\* last of them as the beginning of a label
DottedIn(labels, domain) ==
    \E i \in 2..(Len(domain) - Len(labels) + 1) :
       /\ \A k \in 1..(Len(labels) - 1) : domain[i + k - 1] = labels[k]
       /\ StripPort(domain[i + Len(labels) - 1]) = labels[Len(labels)]

\* extract_jurisdiction; "<name>, USA" is kept as <<name, "USA">>
extract_jurisdiction(u, content) ==
    LET domain == LowerNetloc(u)
    IN  IF DottedIn(<<"ca", "gov">>, domain) THEN <<"California", "USA">>
        ELSE IF DottedIn(<<"state", "us">>, domain) THEN <<Title(domain[1]), "USA">>
        ELSE IF DottedIn(<<"gov">>, domain) THEN <<"Federal", "USA">>
        ELSE IF Occurs("california", content) THEN <<"California", "USA">>
        ELSE IF Occurs("new york", content) THEN <<"New York", "USA">>
        ELSE IF Occurs("texas", content) THEN <<"Texas", "USA">>
        ELSE <<"Unknown">>

NoneResult == [kind |-> "None"]
Raised == [kind |-> "Exception"]

\* "except Exception as e: ...; return None" around a body
ExceptReturnNone(r) == IF r.kind = "Exception" THEN NoneResult ELSE r

\* the HTTP response of a transport call that did not raise
Response(url, outcome) ==
    [status |-> IF outcome = "status" THEN 404 ELSE HttpOk,
     html |-> Page(url), malformed |-> outcome = "html_error"]

\* process_html; malformed is TRUE when handling the body raises
process_html(url, html, malformed) ==
    ExceptReturnNone(
        IF malformed THEN Raised
        ELSE LET content == clean_content(html)
             IN  IF ~is_legal_content(content) THEN NoneResult
                 ELSE LET st == IF is_legal_domain(url) = "None" THEN "other"
                                ELSE is_legal_domain(url)
                      IN  [kind |-> "LegalSource", url |-> url, content |-> content,
                           source_type |-> st,
                           authority_level |-> determine_authority_level(st),
                           jurisdiction |-> extract_jurisdiction(url, content)])

\* crawl_with_aiohttp, from the point where session.get returns or raises
crawl_with_aiohttp_NoStatusCheck(url, outcome) ==
    ExceptReturnNone(
        IF outcome = "error" THEN Raised
        ELSE LET response == Response(url, outcome)
             IN  process_html(url, response.html, response.malformed))

crawl_with_aiohttp(url, outcome) ==
    ExceptReturnNone(
        IF outcome = "error" THEN Raised
        ELSE LET response == Response(url, outcome)
             IN  IF response.status # HttpOk THEN NoneResult
                 ELSE process_html(url, response.html, response.malformed))

\* crawl_url, from the transport call on (use_playwright is False for every
\* call that discover_legal_sources makes)
crawl_url(url, outcome) == ExceptReturnNone(crawl_with_aiohttp(url, outcome))

\* asyncio.gather(*tasks, return_exceptions): the results in task order; an
\* exception of a coroutine is one of the results when return_exceptions is
\* set, and is raised to the awaiting caller otherwise
gather(results, return_exceptions) ==
    IF ~return_exceptions /\ \E i \in DOMAIN results : results[i].kind = "Exception"
    THEN [raised |-> TRUE, results |-> <<>>]
    ELSE [raised |-> FALSE, results |-> results]

\* extract_links_from_content: the hrefs of the <a> elements found when the
\* given content is parsed as HTML, kept when they are on a legal domain
extract_links_from_content(content) ==
    SelectSeq(content.markup, LAMBDA u : is_legal_domain(u) # "None")

(***************************************************************************)
(* discover_legal_sources: the loop "for result in results".               *)
(***************************************************************************)
\* The loop state st is [sources, count, queue, visited, enq].  In the step
\* operators the set constructor binds s to the value of the state, so that
\* the state is computed once for each step.

\* body of "for new_url in new_urls"
EnqueueStep_NoCap(new_url, st) ==
    CHOOSE r \in
      { IF new_url \notin s.visited
        THEN [s EXCEPT !.queue = Append(@, new_url),
                       !.visited = @ \cup {new_url},
                       !.enq = Bump(@, new_url)]
        ELSE s : s \in {st} } : TRUE

EnqueueStep(new_url, st) ==
    CHOOSE r \in
      { IF new_url \notin s.visited /\ Len(s.queue) < QueueCap
        THEN [s EXCEPT !.queue = Append(@, new_url),
                       !.visited = @ \cup {new_url},
                       !.enq = Bump(@, new_url)]
        ELSE s : s \in {st} } : TRUE

RECURSIVE EnqueueLinks(_, _)
EnqueueLinks(new_urls, st) ==
    IF new_urls = <<>> THEN st
    ELSE EnqueueLinks(Tail(new_urls), EnqueueStep(Head(new_urls), st))

\* body of "for result in results"; item is [result, links], links being
\* the URLs that link extraction returns for the result
ResultStep(item, st) ==
    CHOOSE r \in
      { IF item.result.kind = "LegalSource"
        THEN LET st1 == [s EXCEPT !.sources = Append(@, item.result),
                                  !.count = @ + 1]
             IN  IF st1.count < max_urls
                 THEN EnqueueLinks(item.links, st1)
                 ELSE st1
        ELSE s : s \in {st} } : TRUE

RECURSIVE ProcessResults(_, _)
ProcessResults(items, st) ==
    IF items = <<>> THEN st
    ELSE ProcessResults(Tail(items), ResultStep(Head(items), st))

LinksOf(result) ==
    IF result.kind = "LegalSource" THEN extract_links_from_content(result.content)
    ELSE <<>>

\* the state the result loop starts from
LoopState_VisitedForgotten == [sources |-> discovered_sources, count |-> crawled_count,
              queue |-> urls_to_crawl, visited |-> {}, enq |-> enqCount]
LoopState == [sources |-> discovered_sources, count |-> crawled_count,
              queue |-> urls_to_crawl, visited |-> crawled_urls, enq |-> enqCount]

(***************************************************************************)
(* Text.  A Python str is a sequence of one-character strings.             *)
(***************************************************************************)
Chars == {"a", "b", " ", ".", "#"}

Spaces == {" "}                  \* \s
Terminators == {".", "!", "?"}   \* [.!?]
IsSpace(c) == c \in Spaces
IsTerminator(c) == c \in Terminators
\* [\w\s.,!?;:()\-] : the characters that clean_text keeps
IsKept(c) == c \in {"a", "b", " ", ".", ",", "!", "?", ";", ":", "(", ")", "-"}

\* the characters of s at the positions in keep, in order
KeepAt(s, keep) ==
    [k \in 1..Cardinality(keep) |->
        s[CHOOSE i \in keep : Cardinality({j \in keep : j <= i}) = k]]

\* str.strip()
Strip(s) ==
    LET solid == {i \in DOMAIN s : ~IsSpace(s[i])}
    IN  IF solid = {} THEN <<>>
        ELSE SubSeq(s, CHOOSE i \in solid : \A j \in solid : i <= j,
                       CHOOSE i \in solid : \A j \in solid : i >= j)

\* the maximal runs of non-separator characters of s, in order:
\* str.split() for whitespace, the non-empty pieces of re.split for [.!?]+
Runs(s, separators) ==
    LET IsSep(c) == c \in separators
        starts == {i \in DOMAIN s : ~IsSep(s[i]) /\ (i = 1 \/ IsSep(s[i - 1]))}
        EndOf(i) == CHOOSE j \in i..Len(s) :
                      /\ \A k \in i..j : ~IsSep(s[k])
                      /\ (j = Len(s) \/ IsSep(s[j + 1]))
    IN  [k \in 1..Cardinality(starts) |->
           LET i == CHOOSE x \in starts : Cardinality({y \in starts : y <= x}) = k
           IN  SubSeq(s, i, EndOf(i))]

\* " ".join(words)
RECURSIVE JoinWords(_)
JoinWords(words) ==
    IF words = <<>> THEN <<>>
    ELSE IF Len(words) = 1 THEN words[1]
    ELSE words[1] \o <<" ">> \o JoinWords(Tail(words))

(***************************************************************************)
(* DocumentChunker.                                                        *)
(***************************************************************************)
\* clean_text: collapse whitespace runs, drop the other characters, strip
clean_text(t) ==
    LET collapsed == KeepAt(t, {i \in DOMAIN t :
                                  ~(IsSpace(t[i]) /\ i > 1 /\ IsSpace(t[i - 1]))})
        kept == SelectSeq(collapsed, IsKept)
    IN  Strip(kept)

\* split_into_sentences
split_into_sentences(t) ==
    LET pieces == Runs(t, Terminators)
        stripped == [k \in DOMAIN pieces |-> Strip(pieces[k])]
    IN  SelectSeq(stripped, LAMBDA piece : piece # <<>>)

\* words[-n:] of Python: the last n words, and all the words when n = 0
LastWords(words, n) ==
    IF n = 0 THEN words ELSE SubSeq(words, Len(words) - n + 1, Len(words))

\* get_overlap_text
get_overlap_text(t, overlap_size) ==
    LET words == Runs(t, Spaces)
    IN  IF Len(words) <= overlap_size THEN t
        ELSE JoinWords(LastWords(words, overlap_size))

CharCode(c) ==
    CASE c = "a" -> 97 [] c = "b" -> 98 [] c = " " -> 32 [] c = "." -> 46
      [] c = "#" -> 35 [] OTHER -> 63

\* hashlib.md5(text.encode()).hexdigest()[:8]: a digest of 8 hex digits
\* computed from the characters of the text; here two polynomial digests
\* of 4 hex digits each
HalfDigestRange == 16 ^ (DigestHexDigits \div 2)

RECURSIVE PolyDigest(_, _)
PolyDigest(t, base) ==
    IF t = <<>> THEN 7
    ELSE (PolyDigest(SubSeq(t, 1, Len(t) - 1), base) * base + CharCode(t[Len(t)]))
            % HalfDigestRange

Digest(t) == <<PolyDigest(t, 31), PolyDigest(t, 37)>>

\* generate_chunk_id: f"chunk_{content_hash}_{chunk_index}"
generate_chunk_id_WithoutIndex(t, chunk_index) == <<Digest(t), 0>>
generate_chunk_id(t, chunk_index) == <<Digest(t), chunk_index>>

\* DocumentChunk(...) as chunk_text builds it; units (the sentence units
\* accumulated into the chunk) and carried (the overlap text the chunk
\* started with) are observations
DocumentChunk(id_text, buffer, metadata, chunk_index) ==
    [id |-> generate_chunk_id(id_text, chunk_index),
     content |-> Strip(buffer.current),
     metadata |-> [source |-> metadata, chunk_index |-> chunk_index],
     chunk_index |-> chunk_index,
     units |-> buffer.units,
     carried |-> buffer.carried]

\* body of "for sentence in sentences"; st is [chunks, buffer, chunk_index],
\* buffer.current being current_chunk
SentenceStep(sentence, st, id_text, metadata, size, over) ==
    CHOOSE r \in
      { IF Len(s.buffer.current) + Len(sentence) > size /\ s.buffer.current # <<>>
        THEN LET overlap_text == get_overlap_text(s.buffer.current, over)
             IN  [chunks |-> Append(s.chunks,
                                DocumentChunk(id_text, s.buffer, metadata, s.chunk_index)),
                  buffer |-> [current |-> overlap_text \o <<" ">> \o sentence,
                              units |-> <<sentence>>,
                              carried |-> overlap_text],
                  chunk_index |-> s.chunk_index + 1]
        ELSE [s EXCEPT !.buffer =
                [current |-> IF s.buffer.current # <<>>
                             THEN s.buffer.current \o <<" ">> \o sentence
                             ELSE sentence,
                 units |-> Append(s.buffer.units, sentence),
                 carried |-> s.buffer.carried]] : s \in {st} } : TRUE

RECURSIVE SentenceLoop(_, _, _, _, _, _)
SentenceLoop(sentences, st, id_text, metadata, size, over) ==
    IF sentences = <<>> THEN st
    ELSE SentenceLoop(Tail(sentences),
                      SentenceStep(Head(sentences), st, id_text, metadata, size, over),
                      id_text, metadata, size, over)

\* chunk_text from the cleaned text on; id_text is the text whose digest
\* names the chunks
ChunkCleaned(cleaned, id_text, metadata, size, over) ==
    CHOOSE r \in
      { IF Strip(st.buffer.current) # <<>>
        THEN Append(st.chunks,
                    DocumentChunk(id_text, st.buffer, metadata, st.chunk_index))
        ELSE st.chunks :
          st \in {SentenceLoop(split_into_sentences(cleaned),
                               [chunks |-> <<>>,
                                buffer |-> [current |-> <<>>, units |-> <<>>,
                                            carried |-> <<>>],
                                chunk_index |-> 0],
                               id_text, metadata, size, over)} } : TRUE

\* chunk_text
chunk_text_IdOfRawText(t, metadata, size, over) ==
    ChunkCleaned(clean_text(t), t, metadata, size, over)

chunk_text(t, metadata, size, over) ==
    ChunkCleaned(clean_text(t), clean_text(t), metadata, size, over)

(***************************************************************************)
(* EmbeddingGenerator, VectorStore, RAGPipeline.                           *)
(***************************************************************************)
\* generate_embeddings_batch: one vector per text, or [] when encode raises.
\* encoding is what the embedding model does with the texts of a batch:
\* encoding.failing are the positions whose text makes model.encode raise.
\* model.encode returns one row of the model's dimension for each text, so
\* no vector of a returned batch is empty; a vector is kept as TRUE (not
\* empty)
generate_embeddings_batch(texts, encoding) ==
    IF encoding.failing \cap DOMAIN texts = {}
    THEN [i \in DOMAIN texts |-> TRUE]
    ELSE <<>>

\* the vectors add_chunks builds: zip(chunks, embeddings), "if embedding"
Vectors(chs, embeddings) ==
    LET n == Min(Len(chs), Len(embeddings))
        pairs == [i \in 1..n |-> [chunk |-> chs[i], embedding |-> embeddings[i]]]
    IN  SelectSeq(pairs, LAMBDA pr : pr.embedding)

\* index.upsert(vectors): same id => overwrite
Upsert(idx, vectors) ==
    LET ids == {vectors[i].chunk.id : i \in DOMAIN vectors}
        \* the last vector with a given id wins
        Last(id) == vectors[CHOOSE i \in DOMAIN vectors :
                              /\ vectors[i].chunk.id = id
                              /\ \A j \in DOMAIN vectors :
                                    vectors[j].chunk.id = id => j <= i].chunk
    IN  [id \in DOMAIN idx \cup ids |->
           IF id \in ids
           THEN [content |-> Last(id).content, source |-> Last(id).metadata.source,
                 chunk_index |-> Last(id).chunk_index]
           ELSE idx[id]]

\* add_chunks: [ok, index, ids]; upsert_ok is FALSE when index.upsert raises
add_chunks_UpsertErrorIgnored(idx, chs, encoding, upsert_ok) ==
    LET texts == [i \in DOMAIN chs |-> chs[i].content]
        embeddings == generate_embeddings_batch(texts, encoding)
        vectors == Vectors(chs, embeddings)
    IN  IF vectors # <<>>
        THEN IF upsert_ok
             THEN [ok |-> TRUE, index |-> Upsert(idx, vectors),
                   ids |-> {vectors[i].chunk.id : i \in DOMAIN vectors}]
             ELSE [ok |-> TRUE, index |-> idx, ids |-> {}]
        ELSE [ok |-> FALSE, index |-> idx, ids |-> {}]

add_chunks(idx, chs, encoding, upsert_ok) ==
    LET texts == [i \in DOMAIN chs |-> chs[i].content]
        embeddings == generate_embeddings_batch(texts, encoding)
        vectors == Vectors(chs, embeddings)
    IN  IF vectors # <<>>
        THEN IF upsert_ok
             THEN [ok |-> TRUE, index |-> Upsert(idx, vectors),
                   ids |-> {vectors[i].chunk.id : i \in DOMAIN vectors}]
             ELSE [ok |-> FALSE, index |-> idx, ids |-> {}]
        ELSE [ok |-> FALSE, index |-> idx, ids |-> {}]

\* VectorStore.search: the SearchResults of an answer of the index; [] when
\* the query embedding is empty or index.query raises.  answer is
\* [embedded, raised, scores], scores being the scores of the matches in
\* the order the index returned them
search(answer) ==
    IF ~answer.embedded \/ answer.raised THEN <<>>
    ELSE [i \in DOMAIN answer.scores |->
            [chunk |-> i, similarity_score |-> answer.scores[i], rank |-> i]]

\* retrieve_relevant_chunks
retrieve_relevant_chunks_StrictFloor(answer) ==
    SelectSeq(search(answer), LAMBDA r : r.similarity_score > MinScore)

retrieve_relevant_chunks(answer) ==
    SelectSeq(search(answer), LAMBDA r : r.similarity_score >= MinScore)

\* values of the variables of the parts that a specification leaves idle
NoRun == [seeds |-> <<>>, enqueued |-> {}, fetched |-> {}, returned |-> <<>>]
NoCall == [url |-> 0, html |-> [keywords |-> {}, anchors |-> <<>>, escaped |-> <<>>],
           malformed |-> FALSE]
NoCallResult == [source |-> NoneResult, domain |-> "None", jurisdiction |-> <<>>]
PureIdle == call = NoCall /\ callResult = NoCallResult /\ callPc = "idle"
NoResponse == [request |-> "none", plan_id |-> 0, code |-> 0, status |-> "",
               content_type |-> "", pending |-> FALSE]
ApiIdle ==
    /\ ai_service = "none" /\ plans_db = EmptyMap /\ documents_db = EmptyMap
    /\ background = EmptyMap /\ nextId = 0 /\ lastResponse = NoResponse
ChunkIdle ==
    /\ chunk_size = 0 /\ overlap = 0 /\ text = <<>> /\ chunks = <<>>
    /\ chunkPc = "idle"
IngestIdle ==
    /\ index = EmptyMap /\ ingestCount = 0 /\ firstIds = EmptyMap
    /\ lastIngest = [cleaned |-> <<>>, ok |-> FALSE, ids |-> {}, chunk_ids |-> <<>>,
                     failing |-> {}, upsert_ok |-> TRUE]
QueryIdle ==
    /\ indexAnswer = [embedded |-> TRUE, raised |-> FALSE, scores |-> <<>>]
    /\ retrieved = <<>> /\ queryPc = "idle"

(***************************************************************************)
(* Seed lists.                                                             *)
(***************************************************************************)
RECURSIVE SeqsUpTo(_, _)
SeqsUpTo(S, n) ==
    IF n = 0 THEN {<<>>}
    ELSE LET shorter == SeqsUpTo(S, n - 1)
         IN  shorter \cup {Append(q, x) : q \in shorter, x \in S}

SmallSeeds == SeqsUpTo(SmallUrls, MaxSeedLen)

\* a page without legal content, the portal page, then filler pages
LongSeed(n) == [i \in 1..n |-> IF i = 1 THEN 3
                               ELSE IF i = 2 THEN HubUrl
                               ELSE FirstFiller + i - 3]

LongSeeds == {LongSeed(SeedLenOverCap), LongSeed(SeedLenOverMax)}

(***************************************************************************)
(* Initial state: a fresh LegalCrawler on which discover_legal_sources has *)
(* been called and has run up to its while loop.                           *)
(***************************************************************************)
CrawlInit ==
    /\ seed_urls \in SmallSeeds \cup LongSeeds
    /\ urls_to_crawl = seed_urls
    /\ discovered_sources = <<>>
    /\ crawled_count = 0
    /\ crawled_urls = {}
    /\ rate_limits = EmptyMap
    /\ pc = "start"
    /\ tasks = <<>>
    /\ sleepLeft = 0
    /\ transportAge = EmptyMap
    /\ minGap = EmptyMap
    /\ enqCount = CountAll(seed_urls)
    /\ fetchCount = EmptyMap
    /\ run = 1 /\ firstRun = NoRun
    /\ ChunkIdle /\ IngestIdle /\ QueryIdle /\ PureIdle /\ ApiIdle

(***************************************************************************)
(* Actions of the crawl.                                                   *)
(***************************************************************************)
AtLoopHead == pc = "start" \/ (pc = "sleep" /\ sleepLeft = 0)

LoopCondition == urls_to_crawl # <<>> /\ crawled_count < max_urls

\* a crawl_url coroutine; waited (it slept in the rate-limit check) and gap
\* (the interval between its transport call and the one before it for the
\* same domain) are observations
NewTask(url) == [url |-> url, st |-> "ready", left |-> 0,
                 outcome |-> "", result |-> NoneResult,
                 waited |-> FALSE, gap |-> MinInterval]

\* while-test true: slice the batch, create the coroutines, await gather
Dispatch ==
    /\ AtLoopHead
    /\ LoopCondition
    /\ LET current_batch == Take(urls_to_crawl, BatchSize)
       IN  tasks' = [i \in 1..Len(current_batch) |-> NewTask(current_batch[i])]
    /\ urls_to_crawl' = Drop(urls_to_crawl, BatchSize)
    /\ pc' = "gather"
    /\ UNCHANGED <<crawled_urls, rate_limits, seed_urls, discovered_sources,
                   crawled_count, sleepLeft, transportAge, minGap, enqCount,
                   fetchCount>>
    /\ UNCHANGED <<runVars, ragVars, pureVars, apiVars>>

\* while-test false: return discovered_sources
Return ==
    /\ AtLoopHead
    /\ ~LoopCondition
    /\ pc' = "done"
    /\ UNCHANGED <<crawled_urls, rate_limits, seed_urls, urls_to_crawl,
                   discovered_sources, crawled_count, tasks, sleepLeft,
                   transportAge, minGap, enqCount, fetchCount>>
    /\ UNCHANGED <<runVars, ragVars, pureVars, apiVars>>

\* crawl_url records the fetch time and calls the transport
GapBefore(domain) ==
    IF domain \in DOMAIN transportAge THEN transportAge[domain] ELSE MinInterval

BeginTransport(i) ==
    LET url == tasks[i].url
        domain == Host(url)
        gap == GapBefore(domain)
    IN  /\ rate_limits' = [d \in DOMAIN rate_limits \cup {domain} |->
                             IF d = domain THEN 0 ELSE rate_limits[d]]
        /\ transportAge' = [d \in DOMAIN transportAge \cup {domain} |->
                              IF d = domain THEN 0 ELSE transportAge[d]]
        /\ minGap' = [d \in DOMAIN minGap \cup {domain} |->
                        IF d = domain
                        THEN (IF d \in DOMAIN minGap THEN Min(minGap[d], gap) ELSE gap)
                        ELSE minGap[d]]
        /\ fetchCount' = Bump(fetchCount, url)

\* the rate-limit check of crawl_url: must this call sleep first?
MustWait_ReversedTest(domain) ==
    domain \in DOMAIN rate_limits /\ rate_limits[domain] > MinInterval

MustWait(domain) ==
    domain \in DOMAIN rate_limits /\ rate_limits[domain] < MinInterval

\* the event loop starts the coroutines of a batch in order; each runs to
\* its first suspension point: asyncio.sleep(1) or the transport call
TaskStart(i) ==
    /\ pc = "gather"
    /\ i \in DOMAIN tasks
    /\ tasks[i].st = "ready"
    /\ \A k \in 1..(i - 1) : tasks[k].st # "ready"
    /\ IF MustWait(Host(tasks[i].url))
       THEN /\ tasks' = [tasks EXCEPT ![i].st = "sleeping", ![i].left = MinInterval,
                                      ![i].waited = TRUE]
            /\ UNCHANGED <<rate_limits, transportAge, minGap, fetchCount>>
       ELSE /\ tasks' = [tasks EXCEPT ![i].st = "fetching",
                                      ![i].gap = GapBefore(Host(tasks[i].url))]
            /\ BeginTransport(i)
    /\ UNCHANGED <<crawled_urls, pc, seed_urls, urls_to_crawl, discovered_sources,
                   crawled_count, sleepLeft, enqCount>>
    /\ UNCHANGED <<runVars, ragVars, pureVars, apiVars>>

\* asyncio.sleep(1) of crawl_url is over: record the time, call the transport
TaskWake(i) ==
    /\ pc = "gather"
    /\ i \in DOMAIN tasks
    /\ tasks[i].st = "sleeping"
    /\ tasks[i].left = 0
    /\ tasks' = [tasks EXCEPT ![i].st = "fetching",
                              ![i].gap = GapBefore(Host(tasks[i].url))]
    /\ BeginTransport(i)
    /\ UNCHANGED <<crawled_urls, pc, seed_urls, urls_to_crawl, discovered_sources,
                   crawled_count, sleepLeft, enqCount>>
    /\ UNCHANGED <<runVars, ragVars, pureVars, apiVars>>

\* the transport call returns or raises; crawl_with_aiohttp runs to its end
TaskComplete(i, outcome) ==
    /\ pc = "gather"
    /\ i \in DOMAIN tasks
    /\ tasks[i].st = "fetching"
    /\ outcome \in FetchOutcomes(tasks[i].url)
    /\ tasks' = [tasks EXCEPT ![i].st = "done",
                              ![i].outcome = outcome,
                              ![i].result = crawl_url(tasks[i].url, outcome)]
    /\ UNCHANGED <<crawled_urls, rate_limits, pc, seed_urls, urls_to_crawl,
                   discovered_sources, crawled_count, sleepLeft, transportAge,
                   minGap, enqCount, fetchCount>>
    /\ UNCHANGED <<runVars, ragVars, pureVars, apiVars>>

\* gather returns: the for loop over the results, then asyncio.sleep(1)
Collect ==
    /\ pc = "gather"
    /\ \A i \in 1..Len(tasks) : tasks[i].st = "done"
    /\ LET gathered == gather([i \in 1..Len(tasks) |-> tasks[i].result], TRUE)
           results == gathered.results
       IN  IF gathered.raised
           THEN /\ pc' = "raised"
                /\ UNCHANGED <<discovered_sources, crawled_count, urls_to_crawl,
                               crawled_urls, enqCount, sleepLeft>>
           ELSE \E st \in {ProcessResults(
                               [i \in DOMAIN results |->
                                  [result |-> results[i], links |-> LinksOf(results[i])]],
                               LoopState)} :
                    /\ discovered_sources' = st.sources
                    /\ crawled_count' = st.count
                    /\ urls_to_crawl' = st.queue
                    /\ crawled_urls' = st.visited
                    /\ enqCount' = st.enq
                    /\ pc' = "sleep"
                    /\ sleepLeft' = BatchPause
    /\ UNCHANGED <<rate_limits, seed_urls, tasks, transportAge, minGap, fetchCount>>
    /\ UNCHANGED <<runVars, ragVars, pureVars, apiVars>>

\* the clock advances by one tick; the coroutines that are ready to run take
\* no measurable time, so the clock advances only while everything is suspended
Age(m) == [d \in DOMAIN m |-> Min(m[d] + 1, MinInterval)]

Tick ==
    /\ \/ pc = "sleep" /\ sleepLeft > 0
       \/ pc = "gather" /\ \A i \in 1..Len(tasks) : tasks[i].st # "ready"
    /\ rate_limits' = Age(rate_limits)
    /\ transportAge' = Age(transportAge)
    /\ sleepLeft' = Max(sleepLeft - 1, 0)
    /\ tasks' = [i \in 1..Len(tasks) |->
                   [tasks[i] EXCEPT !.left = Max(@ - 1, 0)]]
    /\ UNCHANGED <<crawled_urls, pc, seed_urls, urls_to_crawl, discovered_sources,
                   crawled_count, minGap, enqCount, fetchCount>>
    /\ UNCHANGED <<runVars, ragVars, pureVars, apiVars>>

TaskStep ==
    \/ \E i \in DOMAIN tasks : TaskStart(i)
    \/ \E i \in DOMAIN tasks : TaskWake(i)
    \/ \E i \in DOMAIN tasks : \E o \in FetchOutcomes(tasks[i].url) : TaskComplete(i, o)

CrawlNext ==
    \/ Dispatch
    \/ Return
    \/ \E i \in DOMAIN tasks : TaskStart(i)
    \/ \E i \in DOMAIN tasks : TaskWake(i)
    \/ \E i \in DOMAIN tasks : \E o \in FetchOutcomes(tasks[i].url) : TaskComplete(i, o)
    \/ Collect
    \/ Tick

(***************************************************************************)
(* Fairness of the crawl: the event loop runs every coroutine that can     *)
(* run, every transport call returns or raises, and the clock advances.    *)
(***************************************************************************)
CrawlFairness ==
    /\ WF_vars(Dispatch \/ Return \/ Collect)
    /\ WF_vars(TaskStep)
    /\ WF_vars(Tick)

(***************************************************************************)
(* Runs of discover_legal_sources one after the other on one LegalCrawler, *)
(* as in the loop over the jurisdictions of crawl_legal_sources.  The web  *)
(* is the same in every run: each server answers with its page.            *)
(***************************************************************************)
\* what a run was given, enqueued, fetched and returned
RunRecord ==
    [seeds |-> seed_urls,
     enqueued |-> DOMAIN enqCount,
     fetched |-> DOMAIN fetchCount,
     returned |-> [i \in DOMAIN discovered_sources |-> discovered_sources[i].url]]

\* discover_legal_sources is called again with the same seed list: its
\* locals start afresh, self.crawled_urls and self.rate_limits are those
\* the earlier runs left
NextRun ==
    /\ pc = "done"
    /\ run < MaxRuns
    /\ run' = run + 1
    /\ firstRun' = IF run = 1 THEN RunRecord ELSE firstRun
    /\ urls_to_crawl' = seed_urls
    /\ discovered_sources' = <<>>
    /\ crawled_count' = 0
    /\ pc' = "start"
    /\ tasks' = <<>>
    /\ sleepLeft' = 0
    /\ enqCount' = CountAll(seed_urls)
    /\ fetchCount' = EmptyMap
    /\ UNCHANGED <<crawled_urls, rate_limits, seed_urls, transportAge, minGap>>
    /\ UNCHANGED <<ragVars, pureVars, apiVars>>

RerunInit == CrawlInit /\ seed_urls \in SmallSeeds

RerunNext ==
    \/ Dispatch
    \/ Return
    \/ \E i \in DOMAIN tasks : TaskStart(i)
    \/ \E i \in DOMAIN tasks : TaskWake(i)
    \/ \E i \in DOMAIN tasks : TaskComplete(i, "ok")
    \/ Collect
    \/ Tick
    \/ NextRun

RerunSpec == RerunInit /\ [][RerunNext]_vars

(***************************************************************************)
(* Properties of the crawl.                                                *)
(***************************************************************************)

\* C1: no two transport calls for the same domain begin less than the
\* 1-second minimum interval apart, however many crawl_url calls run
\* concurrently for that domain.
C1_TransportsSpacedByInterval ==
    \A d \in DOMAIN minGap : minGap[d] >= MinInterval

\* C2: in every state of a crawl run the number of accepted LegalSources
\* (crawled_count, the length of discovered_sources) is at most max_urls.
C2_AcceptedAtMostMaxUrls ==
    /\ crawled_count = Len(discovered_sources)
    /\ crawled_count <= max_urls

\* C3: during one crawl run no URL enters the pending queue more than once,
\* as a seed or as a discovered link, and so no URL is fetched twice.
C3_NoUrlEnqueuedTwice ==
    /\ \A u \in DOMAIN enqCount : enqCount[u] <= 1
    /\ \A u \in DOMAIN fetchCount : fetchCount[u] <= 1

FetchFailed(t) == t.outcome \in {"status", "error", "html_error"}

\* the URLs of the current batch whose fetch succeeded on a page with legal content
AcceptedOfBatch ==
    SelectSeq([i \in DOMAIN tasks |-> tasks[i]],
              LAMBDA t : t.outcome = "ok" /\ is_legal_content(clean_content(Page(t.url))))

\* C7: a URL whose fetch or extraction fails yields no LegalSource, every
\* other URL of its batch is still fetched and its result kept, the run ends
\* only by the loop test (later batches are dispatched), and no exception
\* leaves discover_legal_sources.
C7_FailureIsolated ==
    /\ pc # "raised"
    /\ \A i \in DOMAIN tasks :
          tasks[i].st = "done" =>
             /\ FetchFailed(tasks[i]) => tasks[i].result = NoneResult
             /\ (tasks[i].outcome = "ok"
                   /\ is_legal_content(clean_content(Page(tasks[i].url))))
                  => /\ tasks[i].result.kind = "LegalSource"
                     /\ tasks[i].result.url = tasks[i].url
    /\ pc = "sleep" =>
          /\ \A i \in DOMAIN tasks :
                tasks[i].st = "done" /\ tasks[i].url \in DOMAIN fetchCount
          /\ LET acc == AcceptedOfBatch
                 n == Len(discovered_sources)
             IN  /\ n >= Len(acc)
                 /\ \A k \in 1..Len(acc) :
                       discovered_sources[n - Len(acc) + k].url = acc[k].url
    /\ pc = "done" => (urls_to_crawl = <<>> \/ crawled_count >= max_urls)

\* C7 witness: a batch in which one fetch failed and another URL was
\* accepted has been collected, and a further batch is pending.
C7_Witness ==
    /\ pc = "sleep"
    /\ \E i, j \in DOMAIN tasks :
          /\ FetchFailed(tasks[i])
          /\ tasks[j].result.kind = "LegalSource"
          /\ \E k \in DOMAIN discovered_sources :
                discovered_sources[k].url = tasks[j].url
    /\ urls_to_crawl # <<>>

\* the links of a page as the claim counts them: the hrefs of the <a>
\* elements of the page's HTML that are on a legal domain
AnchorLinks(result) ==
    IF result.kind = "LegalSource"
    THEN SelectSeq(Page(result.url).anchors, LAMBDA u : is_legal_domain(u) # "None")
    ELSE <<>>

\* C8: when a page is accepted, every anchor href of its HTML that is on a
\* legal domain and not yet visited is appended to the pending queue, as
\* long as the queue holds fewer than 50 URLs and the accepted count is
\* below max_urls.
C8_AnchorLinksEnqueued ==
    [][(pc = "gather" /\ pc' = "sleep") =>
         LET items == [i \in DOMAIN tasks |->
                         [result |-> tasks[i].result,
                          links |-> AnchorLinks(tasks[i].result)]]
         IN  urls_to_crawl' = ProcessResults(items, LoopState).queue]_vars

\* C9: at every point of a crawl run the pending queue holds at most 50
\* URLs, whatever the seed list.
C9_QueueAtMostCap == Len(urls_to_crawl) <= QueueCap

\* C9 (amended): no step of a crawl run grows the pending queue beyond 50
\* URLs; a queue longer than that (a long seed list) only shrinks.  Hence
\* the queue never holds more than max(50, number of seed URLs).
C9_QueueNeverGrowsBeyondCap ==
    [][Len(urls_to_crawl') <= Max(QueueCap, Len(urls_to_crawl))]_vars

\* C9 witness: link discovery has filled the queue to its cap and a
\* discovered link of the accepted portal page was left out.
C9_Witness ==
    /\ pc = "sleep"
    /\ Len(urls_to_crawl) = QueueCap
    /\ \E k \in DOMAIN discovered_sources : discovered_sources[k].url = HubUrl
    /\ \E i \in DOMAIN HubLinks : HubLinks[i] \notin crawled_urls
    /\ \E i \in DOMAIN HubLinks : HubLinks[i] \in crawled_urls

\* tasks i and j are the only two crawl_url calls of the batch for their
\* domain, i was issued first and found the domain idle (it did not wait),
\* and j was issued right after it
TwoBackToBack(i, j) ==
    /\ i < j
    /\ Host(tasks[i].url) = Host(tasks[j].url)
    /\ \A k \in DOMAIN tasks \ {i, j} : Host(tasks[k].url) # Host(tasks[i].url)
    /\ tasks[i].st # "ready" /\ ~tasks[i].waited
    /\ tasks[j].st # "ready"

\* C17: of exactly two back-to-back crawl_url calls for one domain, the
\* second starts its transport request at least 1 second after the first
\* started its own.
C17_SecondOfTwoWaits ==
    \A i, j \in DOMAIN tasks :
       (TwoBackToBack(i, j) /\ tasks[j].st \in {"fetching", "done"}) =>
          (tasks[j].waited /\ tasks[j].gap >= MinInterval)

\* C17 witness: the second of two back-to-back calls has slept and started
\* its transport request while the first call's request is still running.
C17_Witness ==
    \E i, j \in DOMAIN tasks :
       /\ TwoBackToBack(i, j)
       /\ tasks[i].st = "fetching"
       /\ tasks[j].st = "fetching" /\ tasks[j].waited
       /\ tasks[j].gap >= MinInterval

\* C20: a crawl run is stateless with respect to earlier runs: a run after
\* another run on the same crawler, with the same seed list and the same
\* web, enqueues and fetches the same URLs and returns the same sources as
\* the run on the fresh crawler did.
C20_RunsAreStateless ==
    (run > 1 /\ pc = "done") => RunRecord = firstRun

\* C21: the pending queue is consumed in FIFO order: a batch is the up to
\* BatchSize oldest pending URLs in their order, the rest of the queue keeps
\* its order, and every other step only appends at the end of the queue, so
\* a URL that entered before another is never dispatched after it.
C21_QueueIsFifo ==
    [][ IF pc # "gather" /\ pc' = "gather"
        THEN /\ [i \in DOMAIN tasks' |-> tasks'[i].url]
                  = SubSeq(urls_to_crawl, 1, Min(BatchSize, Len(urls_to_crawl)))
             /\ urls_to_crawl'
                  = SubSeq(urls_to_crawl, Len(tasks') + 1, Len(urls_to_crawl))
        ELSE /\ Len(urls_to_crawl) <= Len(urls_to_crawl')
             /\ SubSeq(urls_to_crawl', 1, Len(urls_to_crawl)) = urls_to_crawl ]_vars

\* C21 witness: a later batch of BatchSize URLs has been dispatched while
\* URLs that entered the queue after them are still pending.
C21_Witness ==
    /\ pc = "gather" /\ Len(tasks) = BatchSize
    /\ crawled_count > 0
    /\ urls_to_crawl # <<>>
    /\ \E i \in DOMAIN urls_to_crawl : urls_to_crawl[i] \in crawled_urls

\* C24: a discovered link is put into the visited set in the same step in
\* which it passes the not-visited check and is appended to the pending
\* queue: every URL a step appends to the queue was not visited before the
\* step and is visited after it, is appended once, and the visited set
\* grows by exactly the appended URLs, so no link is enqueued by two batches.
C24_VisitedAtEnqueue ==
    [][ LET added == SubSeq(urls_to_crawl', Len(urls_to_crawl) + 1, Len(urls_to_crawl'))
        IN  (pc = "gather" /\ pc' # "gather") =>
               /\ \A i \in DOMAIN added :
                     /\ added[i] \notin crawled_urls
                     /\ added[i] \in crawled_urls'
                     /\ \A j \in DOMAIN added : added[j] = added[i] => j = i
               /\ crawled_urls' = crawled_urls \cup {added[i] : i \in DOMAIN added} ]_vars

\* C24 witness: the result loop has enqueued links of an accepted page, the
\* links are visited and pending, and links enqueued by an earlier batch
\* have been fetched already.
C24_Witness ==
    /\ pc = "sleep"
    /\ \E i \in DOMAIN urls_to_crawl : urls_to_crawl[i] \in crawled_urls
    /\ \E u \in crawled_urls : u \in DOMAIN fetchCount

\* max_depth of discover_legal_sources: its default, which every call of
\* crawl_legal_sources uses
max_depth == 2

\* the links that the result loop finds for the page at a URL
LinksOfPage(u) ==
    LET links == LinksOf(process_html(u, Page(u), FALSE))
    IN  {links[i] : i \in DOMAIN links}

\* the URLs at most n link-hops away from a seed URL
RECURSIVE WithinHops(_, _)
WithinHops(seeds, n) ==
    IF n = 0 THEN seeds
    ELSE LET near == WithinHops(seeds, n - 1)
         IN  near \cup UNION {LinksOfPage(u) : u \in near}

\* C26: a run respects its depth limit: no URL more than max_depth
\* link-hops away from a seed URL is enqueued or fetched.
C26_DepthLimitRespected ==
    (DOMAIN enqCount \cup DOMAIN fetchCount)
        \subseteq WithinHops({seed_urls[i] : i \in DOMAIN seed_urls}, max_depth)

(***************************************************************************)
(* The chunker, the ingestion and the retrieval as specifications of their *)
(* own; the crawler is idle in them.                                       *)
(***************************************************************************)
CrawlIdle ==
    /\ seed_urls = <<>> /\ urls_to_crawl = <<>> /\ discovered_sources = <<>>
    /\ crawled_count = 0 /\ crawled_urls = {} /\ rate_limits = EmptyMap
    /\ pc = "idle" /\ tasks = <<>> /\ sleepLeft = 0
    /\ transportAge = EmptyMap /\ minGap = EmptyMap
    /\ enqCount = EmptyMap /\ fetchCount = EmptyMap
    /\ run = 0 /\ firstRun = NoRun

Texts(n) == SeqsUpTo(Chars, n)
\* the documents given to process_document are written with fewer characters
DocChars == {"a", ".", "#"}
Docs(n) == SeqsUpTo(DocChars, n)
DocUrls == {"https://www.irs.gov/llc", "https://mirror.example.com/llc"}

\* ---- chunk_text ----
ChunkInit ==
    /\ CrawlIdle /\ IngestIdle /\ QueryIdle /\ PureIdle /\ ApiIdle
    /\ chunk_size \in 1..MaxChunkSize
    /\ overlap \in 0..MaxOverlap
    /\ text \in Texts(MaxTextLen)
    /\ chunks = <<>>
    /\ chunkPc = "input"

ChunkText ==
    /\ chunkPc = "input"
    /\ chunks' = chunk_text(text, "doc", chunk_size, overlap)
    /\ chunkPc' = "chunked"
    /\ UNCHANGED <<chunk_size, overlap, text, ingestVars, queryVars, crawlVars, pureVars, apiVars>>

\* the texts of a second call on the same chunker: the same text, and the
\* text written with other whitespace or with characters clean_text drops
SecondTexts(t) ==
    {t, <<" ">> \o t, t \o <<"#">>}

\* chunk_text is called again; the chunker keeps nothing of the first call
ChunkAgain(t) ==
    /\ chunkPc = "chunked"
    /\ text' = t
    /\ chunks' = chunk_text(t, "doc", chunk_size, overlap)
    /\ chunkPc' = "rechunked"
    /\ UNCHANGED <<chunk_size, overlap, ingestVars, queryVars, crawlVars, pureVars, apiVars>>

ChunkNext ==
    \/ ChunkText
    \/ \E t \in SecondTexts(text) : ChunkAgain(t)
ChunkSpec == ChunkInit /\ [][ChunkNext]_vars

\* ---- process_document ----
\* self.chunker = DocumentChunker(...): the smallest and the largest
\* configurations
IngestInit ==
    /\ CrawlIdle /\ IngestIdle /\ QueryIdle /\ PureIdle /\ ApiIdle
    /\ chunk_size \in {1, MaxChunkSize}
    /\ overlap \in {0, MaxOverlap}
    /\ text = <<>> /\ chunks = <<>> /\ chunkPc = "idle"

\* what the embedding model does with a batch: nothing wrong, or encode
\* raises on the text at one position
Encodings == {[failing |-> f] : f \in {{}} \cup {{i} : i \in 1..MaxDocLen}}

\* process_document(document_content, metadata) with the answers of the
\* embedding model and of the index
ProcessDocument(document_content, url, encoding, upsert_ok) ==
    /\ ingestCount < MaxIngest
    /\ \E chs \in {chunk_text(document_content, url, chunk_size, overlap)},
          cleaned \in {clean_text(document_content)} :
       \E added \in {add_chunks(index, chs, encoding, upsert_ok)} :
           /\ index' = added.index
           /\ lastIngest' = [cleaned |-> cleaned, ok |-> added.ok, ids |-> added.ids,
                             chunk_ids |-> [k \in DOMAIN chs |-> chs[k].id],
                             failing |-> encoding.failing \cap DOMAIN chs,
                             upsert_ok |-> upsert_ok]
           /\ firstIds' = IF added.ok /\ cleaned \notin DOMAIN firstIds
                          THEN [c \in DOMAIN firstIds \cup {cleaned} |->
                                  IF c = cleaned THEN added.ids ELSE firstIds[c]]
                          ELSE firstIds
    /\ ingestCount' = ingestCount + 1
    /\ UNCHANGED <<chunkVars, queryVars, crawlVars, pureVars, apiVars>>

\* one thing goes wrong in a call at most
IngestNext ==
    \E d \in Docs(MaxDocLen), u \in DocUrls, e \in Encodings, w \in BOOLEAN :
        (e.failing = {} \/ w) /\ ProcessDocument(d, u, e, w)
IngestSpec == IngestInit /\ [][IngestNext]_vars

\* ---- retrieve_relevant_chunks ----
Scores == {0, 69, 70, 71, 100}

Answers ==
    {[embedded |-> TRUE, raised |-> FALSE, scores |-> sc] :
        sc \in SeqsUpTo(Scores, MaxMatches)}
    \cup {[embedded |-> FALSE, raised |-> FALSE, scores |-> <<>>],
          [embedded |-> TRUE, raised |-> TRUE, scores |-> <<>>]}

QueryInit ==
    /\ CrawlIdle /\ ChunkIdle /\ IngestIdle /\ PureIdle /\ ApiIdle
    /\ indexAnswer = [embedded |-> TRUE, raised |-> FALSE, scores |-> <<>>]
    /\ retrieved = <<>>
    /\ queryPc = "ready"

Retrieve(answer) ==
    /\ queryPc = "ready"
    /\ indexAnswer' = answer
    /\ retrieved' = retrieve_relevant_chunks(answer)
    /\ queryPc' = "done"
    /\ UNCHANGED <<chunkVars, ingestVars, crawlVars, pureVars, apiVars>>

QueryNext == \E answer \in Answers : Retrieve(answer)
QuerySpec == QueryInit /\ [][QueryNext]_vars

\* ---- process_html ----
ProbePages == {[keywords |-> ws, anchors |-> <<>>, escaped |-> <<>>] :
                 ws \in SUBSET ProbeWords}

CallInit ==
    /\ CrawlIdle /\ ChunkIdle /\ IngestIdle /\ QueryIdle /\ ApiIdle
    /\ call \in [url : ProbeUrls, html : ProbePages, malformed : BOOLEAN]
    /\ callResult = NoCallResult
    /\ callPc = "called"

\* process_html(url, html) runs to its end; the results of is_legal_domain
\* and of extract_jurisdiction for its arguments are observed with it
ProcessHtml ==
    /\ callPc = "called"
    /\ callResult' = [source |-> process_html(call.url, call.html, call.malformed),
                      domain |-> is_legal_domain(call.url),
                      jurisdiction |-> extract_jurisdiction(call.url,
                                                            clean_content(call.html))]
    /\ callPc' = "returned"
    /\ UNCHANGED <<call, crawlVars, ragVars, apiVars>>

CallNext == ProcessHtml
CallSpec == CallInit /\ [][CallNext]_vars

(***************************************************************************)
(* The API process: POST /upload, the background task it starts, and       *)
(* GET /plans/{plan_id}.                                                   *)
(***************************************************************************)
SupportedTypes ==
    {"application/pdf",
     "application/vnd.openxmlformats-officedocument.wordprocessingml.document"}
ContentTypes == SupportedTypes \cup {"text/plain"}

\* how ai_service.process_document can end for the background task:
\*   "plan"         AIService returns a progress path that has every field
\*                  the Plan model requires
\*   "partial_plan" AIService returns a progress path without createdAt/updatedAt
\*   "error_record" AIService caught an exception and returns its error record
\*   "plan_object"  MockAIService returns a Plan object, not a dict
ServiceOutcomes(service) ==
    IF service = "AIService" THEN {"plan", "partial_plan", "error_record"}
    ELSE {"plan_object"}

\* the process has started: the module chose its service, the stores are empty
ApiInit ==
    /\ CrawlIdle /\ ChunkIdle /\ IngestIdle /\ QueryIdle /\ PureIdle
    /\ ai_service \in {"AIService", "MockAIService"}
    /\ plans_db = EmptyMap
    /\ documents_db = EmptyMap
    /\ background = EmptyMap
    /\ nextId = 1
    /\ lastResponse = NoResponse

\* a function with one more (or one replaced) entry
Store(db, key, value) ==
    [k \in DOMAIN db \cup {key} |-> IF k = key THEN value ELSE db[k]]

\* the answer to a request; pending says that the plan of a GET was
\* uploaded and that its background task has not stored anything yet
Answer(request, plan_id, code, status, content_type) ==
    [request |-> request, plan_id |-> plan_id, code |-> code, status |-> status,
     content_type |-> content_type,
     pending |-> /\ request = "get"
                 /\ plan_id \in DOMAIN documents_db
                 /\ plan_id \notin DOMAIN plans_db]

\* upload_document.  The HTTPException(415) is raised inside the try whose
\* "except Exception" answers 500; disk_ok is FALSE when writing the file
\* raises
upload_document(content_type, disk_ok) ==
    /\ IF content_type \notin SupportedTypes \/ ~disk_ok
       THEN /\ lastResponse' = Answer("upload", 0, InternalServerError, "error",
                                      content_type)
            /\ UNCHANGED <<ai_service, plans_db, documents_db, background, nextId>>
       ELSE /\ nextId <= MaxUploads
            /\ documents_db' = Store(documents_db, nextId, content_type)
            /\ background' = Store(background, nextId, "scheduled")
            /\ nextId' = nextId + 1
            /\ lastResponse' = Answer("upload", nextId, HttpOk, "processing",
                                      content_type)
            /\ UNCHANGED <<ai_service, plans_db>>
    /\ UNCHANGED <<crawlVars, ragVars, pureVars>>

\* process_document_async runs for a plan.  Assigning plan_data['planId']
\* raises for a Plan object, and the except branch stores the failure
process_document_async(plan_id, outcome) ==
    /\ plan_id \in DOMAIN background
    /\ background[plan_id] = "scheduled"
    /\ outcome \in ServiceOutcomes(ai_service)
    /\ plans_db' = Store(plans_db, plan_id,
                         IF outcome = "plan_object"
                         THEN [status |-> "failed", error |-> TRUE, valid |-> FALSE]
                         ELSE [status |-> "ready",
                               error |-> outcome = "error_record",
                               valid |-> outcome = "plan"])
    /\ background' = Store(background, plan_id, outcome)
    /\ UNCHANGED <<ai_service, documents_db, nextId, lastResponse>>
    /\ UNCHANGED <<crawlVars, ragVars, pureVars>>

\* get_plan.  Plan(**plan_data) raises a validation error, answered as 500,
\* when the stored record lacks a required field
get_plan(plan_id) ==
    /\ lastResponse' =
          IF plan_id \notin DOMAIN plans_db
          THEN Answer("get", plan_id, NotFound, "error", "")
          ELSE IF plans_db[plan_id].status = "processing"
          THEN Answer("get", plan_id, HttpOk, "processing", "")
          ELSE IF plans_db[plan_id].status = "failed"
          THEN Answer("get", plan_id, InternalServerError, "error", "")
          ELSE IF plans_db[plan_id].valid
          THEN Answer("get", plan_id, HttpOk, plans_db[plan_id].status, "")
          ELSE Answer("get", plan_id, InternalServerError, "error", "")
    /\ UNCHANGED <<ai_service, plans_db, documents_db, background, nextId>>
    /\ UNCHANGED <<crawlVars, ragVars, pureVars>>

ApiNext ==
    \/ \E t \in ContentTypes, d \in BOOLEAN : upload_document(t, d)
    \/ \E p \in 1..MaxUploads, o \in ServiceOutcomes(ai_service) :
          process_document_async(p, o)
    \/ \E p \in 1..MaxUploads : get_plan(p)

ApiSpec == ApiInit /\ [][ApiNext]_vars

(***************************************************************************)
(* Properties of the chunker, the ingestion and the retrieval.             *)
(***************************************************************************)

\* C5: every chunk that chunk_text emits has at most chunk_size characters,
\* unless it consists of a single sentence unit that is itself longer than
\* chunk_size; chunks that start with carried-over overlap words included.
C5_ChunkWithinSize ==
    chunkPc = "chunked" =>
       \A k \in DOMAIN chunks :
          \/ Len(chunks[k].content) <= chunk_size
          \/ /\ Len(chunks[k].units) = 1
             /\ Len(chunks[k].units[1]) > chunk_size

\* the matches of an answer that reach the floor, as positions
AtFloor(answer) ==
    IF ~answer.embedded \/ answer.raised THEN {}
    ELSE {i \in DOMAIN answer.scores : answer.scores[i] >= MinScore}

\* C6: retrieve_relevant_chunks returns exactly the matches whose score is
\* at least 0.70, in the order the index returned them, and nothing when
\* the embedding or the index fails; no result is below 0.70.
C6_ExactlyMatchesAtFloor ==
    queryPc = "done" =>
       /\ \A k \in DOMAIN retrieved : retrieved[k].similarity_score >= MinScore
       /\ \A k \in DOMAIN retrieved :
             /\ retrieved[k].rank \in AtFloor(indexAnswer)
             /\ retrieved[k].similarity_score = indexAnswer.scores[retrieved[k].rank]
       /\ \A i \in AtFloor(indexAnswer) : \E k \in DOMAIN retrieved : retrieved[k].rank = i
       /\ \A k \in 1..(Len(retrieved) - 1) : retrieved[k].rank < retrieved[k + 1].rank
       /\ (~indexAnswer.embedded \/ indexAnswer.raised) => retrieved = <<>>

\* C6 witness: an answer with a match below, a match at and a match above
\* the floor has been filtered.
C6_Witness ==
    /\ queryPc = "done"
    /\ \E i, j, k \in DOMAIN indexAnswer.scores :
          /\ indexAnswer.scores[i] < MinScore
          /\ indexAnswer.scores[j] = MinScore
          /\ indexAnswer.scores[k] > MinScore
    /\ Len(retrieved) = 2

\* C10: ingesting a text whose cleaned form equals that of a text already
\* ingested (same chunker configuration) upserts exactly the chunk ids that
\* are already stored for it, and the set of chunk ids in the index stays
\* as it was.
C10_ReingestionKeepsIds ==
    [][(ingestCount' # ingestCount /\ lastIngest'.cleaned \in DOMAIN firstIds) =>
         /\ DOMAIN index' = DOMAIN index
         /\ lastIngest'.ok => lastIngest'.ids = firstIds[lastIngest'.cleaned]
         /\ lastIngest'.ids \subseteq DOMAIN index]_vars

\* C10 witness: a document of several chunks has been ingested twice with
\* success, and the index holds exactly its chunk ids.
C10_Witness ==
    /\ ingestCount = 2
    /\ lastIngest.ok
    /\ lastIngest.cleaned \in DOMAIN firstIds
    /\ Cardinality(lastIngest.ids) >= 2
    /\ DOMAIN index = firstIds[lastIngest.cleaned]
    /\ \E id \in DOMAIN index : index[id].source = "https://mirror.example.com/llc"

\* scenario B (a cleaned document of 1,200 characters, chunk_size 512,
\* overlap 50 words) at the scale of the texts of ChunkSpec: the document is
\* between two and three chunk sizes long and the overlap is shorter than a
\* chunk
ScenarioB == [doc_len |-> MaxTextLen, chunk_size |-> MaxTextLen \div 2, overlap |-> 1]

\* C11: a cleaned document of scenario B is returned as exactly 3 chunks,
\* each of at most chunk_size characters, with chunk_index 0, 1, 2.
C11_ScenarioBThreeChunks ==
    (/\ chunkPc = "chunked"
     /\ clean_text(text) = text
     /\ Len(text) = ScenarioB.doc_len
     /\ chunk_size = ScenarioB.chunk_size
     /\ overlap = ScenarioB.overlap) =>
        /\ Len(chunks) = 3
        /\ \A k \in DOMAIN chunks :
              /\ Len(chunks[k].content) <= chunk_size
              /\ chunks[k].chunk_index = k - 1

\* a chunk's content without the overlap prefix carried over from its
\* predecessor
WithoutOverlap(chunk) ==
    SubSeq(chunk.content, Len(chunk.carried) + 1, Len(chunk.content))

RECURSIVE Concat(_)
Concat(pieces) ==
    IF pieces = <<>> THEN <<>> ELSE Head(pieces) \o Concat(Tail(pieces))

\* a text up to whitespace: its characters that are not whitespace
UpToWhitespace(t) == SelectSeq(t, LAMBDA c : ~IsSpace(c))

\* C12: the chunks in order, each without its carried-over overlap prefix,
\* concatenated, give the cleaned text up to whitespace: nothing of the
\* cleaned text is lost, duplicated or reordered.
C12_ChunksReconstructCleanedText ==
    chunkPc = "chunked" =>
       UpToWhitespace(Concat([k \in DOMAIN chunks |-> WithoutOverlap(chunks[k])]))
          = UpToWhitespace(clean_text(text))

\* C22: chunking is deterministic: a second call of chunk_text with the
\* same text, metadata and configuration returns the same chunk sequence
\* (length, contents, chunk_index values, ids), and a call with a text of
\* the same cleaned form returns chunks with the same ids.
C22_ChunkingIsDeterministic ==
    [][ (chunkPc = "chunked" /\ chunkPc' = "rechunked") =>
           /\ text' = text => chunks' = chunks
           /\ clean_text(text') = clean_text(text) =>
                 /\ Len(chunks') = Len(chunks)
                 /\ \A k \in DOMAIN chunks : chunks'[k].id = chunks[k].id ]_vars

\* C22 witness: the second call was given the text of the first call with
\* added characters that cleaning drops, and returned several chunks.
C22_Witness ==
    /\ chunkPc = "rechunked"
    /\ Len(text) > MaxTextLen
    /\ Len(clean_text(text)) = MaxTextLen
    /\ Len(chunks) > 1

\* C23: the chunks of a text carry the chunk_index values 0, 1, ..., n-1 in
\* list order, the chunk_index of a chunk's metadata is that of the chunk,
\* and the ids of the chunks of one document are pairwise distinct.
C23_IndexesContiguousIdsDistinct ==
    chunkPc \in {"chunked", "rechunked"} =>
       /\ \A k \in DOMAIN chunks :
             /\ chunks[k].chunk_index = k - 1
             /\ chunks[k].metadata.chunk_index = chunks[k].chunk_index
       /\ \A j, k \in DOMAIN chunks : j # k => chunks[j].id # chunks[k].id

\* C23 witness: a text was split into three chunks or more.
C23_Witness == chunkPc = "chunked" /\ Len(chunks) >= 3

\* the last min(n, number of words) words of a word list
TrailingWords(words, n) ==
    SubSeq(words, Len(words) - Min(n, Len(words)) + 1, Len(words))

\* the words of a list of sentence units, in order
RECURSIVE WordsOfUnits(_)
WordsOfUnits(units) ==
    IF units = <<>> THEN <<>>
    ELSE Runs(Head(units), Spaces) \o WordsOfUnits(Tail(units))

\* C25: a chunk that follows a chunk closed on overflow consists of the
\* last min(overlap, word count) words of the closed chunk, then the unit
\* that triggered the overflow, then the further units accumulated into it.
C25_NextChunkStartsWithOverlapWords ==
    chunkPc = "chunked" =>
       \A k \in DOMAIN chunks \ {1} :
          Runs(chunks[k].content, Spaces)
             = TrailingWords(Runs(chunks[k - 1].content, Spaces), overlap)
                 \o WordsOfUnits(chunks[k].units)

\* C18: when the embedding of one chunk of a batch fails, that chunk is
\* skipped and every other chunk of the batch is still upserted into the
\* index.
C18_OtherChunksStillStored ==
    (ingestCount > 0 /\ lastIngest.upsert_ok /\ lastIngest.failing # {}) =>
       \A k \in DOMAIN lastIngest.chunk_ids \ lastIngest.failing :
          lastIngest.chunk_ids[k] \in DOMAIN index

\* C19: process_document returns True only when the upsert of the
\* document's chunks completed without error; when the index raises on the
\* write, it returns False.
C19_SuccessOnlyAfterUpsert ==
    ingestCount > 0 =>
       /\ lastIngest.ok =>
             /\ lastIngest.upsert_ok
             /\ lastIngest.ids # {} /\ lastIngest.ids \subseteq DOMAIN index
       /\ ~lastIngest.upsert_ok => ~lastIngest.ok

\* C19 witness: the chunks of a document were embedded, the index raised
\* on the upsert, and process_document returned False.
C19_Witness ==
    /\ ingestCount > 0
    /\ lastIngest.chunk_ids # <<>> /\ lastIngest.failing = {}
    /\ ~lastIngest.upsert_ok
    /\ ~lastIngest.ok

(***************************************************************************)
\* the distinct terms of the vocabulary that occur in the cleaned content of
\* the page of the call
MatchingTerms ==
    {t \in legal_keywords :
        \E w \in clean_content(call.html).keywords : t \in SubstringsOf(Lower(w))}

\* C13: process_html returns a LegalSource if and only if at least 3
\* distinct terms of the vocabulary occur in the cleaned content.
C13_AcceptedIffThreeTerms ==
    callPc = "returned" =>
       (callResult.source.kind = "LegalSource" <=> Cardinality(MatchingTerms) >= 3)

\* C13 (amended): process_html returns a LegalSource if and only if at
\* least 3 distinct terms of the vocabulary occur in the cleaned content and
\* processing the HTML raised no exception; otherwise it returns none.
C13_AcceptedIffThreeTermsAndNoError ==
    callPc = "returned" =>
       /\ callResult.source.kind \in {"LegalSource", "None"}
       /\ callResult.source.kind = "LegalSource"
             <=> (Cardinality(MatchingTerms) >= 3 /\ ~call.malformed)

\* C13 witness: a page with exactly 3 matching terms, one of them written
\* in capitals and one inside a longer word, was accepted.
C13_Witness ==
    /\ callPc = "returned"
    /\ callResult.source.kind = "LegalSource"
    /\ Cardinality(MatchingTerms) = 3
    /\ {"LLC", "first"} \subseteq call.html.keywords

\* urlparse(url).hostname: the lower-cased host of the URL, without port
Hostname(u) == [i \in DOMAIN Host(u) |-> Lower(StripPort(Host(u)[i]))]

CategoryMatches(category, host) ==
    \E j \in DOMAIN legal_domains[category] :
        PatternMatches(legal_domains[category][j], host)

\* C14: is_legal_domain returns the first category, in the order
\* government, court, legal_portal, that has a pattern matching the
\* lower-cased hostname of the URL, and none when no category matches.
C14_FirstCategoryOfHostname ==
    callPc = "returned" =>
       callResult.domain =
          (LET host == Hostname(call.url)
           IN  IF CategoryMatches("government", host) THEN "government"
               ELSE IF CategoryMatches("court", host) THEN "court"
               ELSE IF CategoryMatches("legal_portal", host) THEN "legal_portal"
               ELSE "None")

\* the hostname rules of the jurisdiction as the claim states them: a
\* .ca.gov host, a state .us host (<state>.state.us or state.<code>.us),
\* any other .gov host; <<>> when no rule applies
HostnameRule(host) ==
    IF PatternMatches(<<"ca", "gov">>, host) THEN <<"California", "USA">>
    ELSE IF PatternMatches(<<"state", "us">>, host)
         THEN <<Title(host[Len(host) - 2]), "USA">>
    ELSE IF Len(host) >= 3 /\ host[Len(host)] = "us" /\ host[Len(host) - 2] = "state"
         THEN <<Title(host[Len(host) - 1]), "USA">>
    ELSE IF PatternMatches(<<"gov">>, host) THEN <<"Federal", "USA">>
    ELSE <<>>

\* C15: the jurisdiction is the result of the hostname rule when one
\* applies, whatever the content; otherwise the first of california, new
\* york, texas found in the content; otherwise Unknown.
C15_JurisdictionPriorityChain ==
    callPc = "returned" =>
       callResult.jurisdiction =
          (LET rule == HostnameRule(Hostname(call.url))
               words == {Lower(w) : w \in clean_content(call.html).keywords}
           IN  IF rule # <<>> THEN rule
               ELSE IF "california" \in words THEN <<"California", "USA">>
               ELSE IF "new york" \in words THEN <<"New York", "USA">>
               ELSE IF "texas" \in words THEN <<"Texas", "USA">>
               ELSE <<"Unknown">>)

\* https://example.gov/llc-guide
ExampleGovUrl == NumUrls + 1

\* C16: a LegalSource of process_html has source_type is_legal_domain(url),
\* or other when the URL is unclassified, and authority_level high exactly
\* for government and court, medium exactly for legal_portal, low
\* otherwise; an accepted page at example.gov is government and high.
C16_SourceTypeAndAuthority ==
    (callPc = "returned" /\ callResult.source.kind = "LegalSource") =>
       LET source == callResult.source
       IN  /\ source.source_type =
                 (IF callResult.domain = "None" THEN "other" ELSE callResult.domain)
           /\ source.authority_level = "high"
                 <=> source.source_type \in {"government", "court"}
           /\ source.authority_level = "medium"
                 <=> source.source_type = "legal_portal"
           /\ source.authority_level = "low"
                 <=> source.source_type \notin {"government", "court", "legal_portal"}
           /\ call.url = ExampleGovUrl =>
                 (source.source_type = "government" /\ source.authority_level = "high")

\* C16 witness: an accepted page at example.gov, and with it a LegalSource
\* of a government host with high authority.
C16_Witness ==
    /\ callPc = "returned"
    /\ call.url = ExampleGovUrl
    /\ callResult.source.kind = "LegalSource"
    /\ callResult.source.source_type = "government"
    /\ callResult.source.authority_level = "high"

\* C30: is_legal_domain never returns 'court': a host that a court pattern
\* matches is matched by the government patterns, which are tried first,
\* so it is classified 'government', and no LegalSource has source_type
\* 'court'.
C30_NeverCourt ==
    callPc = "returned" =>
       /\ callResult.domain # "court"
       /\ callResult.source.kind = "LegalSource" =>
             callResult.source.source_type # "court"
       /\ CategoryMatches("court", LowerNetloc(call.url)) =>
             callResult.domain = "government"

\* C30 witness: a page on a host that a court pattern matches was accepted
\* with source_type 'government'.
C30_Witness ==
    /\ callPc = "returned"
    /\ CategoryMatches("court", LowerNetloc(call.url))
    /\ callResult.source.kind = "LegalSource"
    /\ callResult.source.source_type = "government"

(***************************************************************************)
(* Properties of the API process.                                          *)
(***************************************************************************)
\* the ways of process_document to end that are failures
FailedOutcomes == {"error_record", "plan_object"}

\* C27: a plan whose background processing failed is never stored with
\* status 'ready': it is stored with status 'failed', and GET /plans/{id}
\* does not answer with it as a ready plan.
C27_FailedPlanNeverReady ==
    /\ \A p \in DOMAIN plans_db :
          background[p] \in FailedOutcomes => plans_db[p].status = "failed"
    /\ (/\ lastResponse.request = "get"
        /\ lastResponse.plan_id \in DOMAIN plans_db
        /\ background[lastResponse.plan_id] \in FailedOutcomes)
          => ~(lastResponse.code = HttpOk /\ lastResponse.status = "ready")

\* C28: from the answer of POST /upload with a planId until the background
\* task stores its result, GET /plans/{planId} answers with a plan of
\* status 'processing', not with 404.
C28_PendingPlanIsProcessing ==
    (lastResponse.request = "get" /\ lastResponse.pending) =>
       (lastResponse.code = HttpOk /\ lastResponse.status = "processing")

\* C29: POST /upload with a file that is neither PDF nor Word is answered
\* with status 415, stores nothing and starts no background task.
C29_UnsupportedTypeRejected ==
    [][ (lastResponse' # lastResponse /\ lastResponse'.request = "upload"
           /\ lastResponse'.content_type \notin SupportedTypes) =>
          /\ lastResponse'.code = UnsupportedMediaType
          /\ UNCHANGED <<documents_db, plans_db, background>> ]_vars

Init == CrawlInit
Next == CrawlNext
Spec == Init /\ [][Next]_vars
LiveInit == CrawlInit /\ seed_urls \in SmallSeeds
LiveSpec == LiveInit /\ [][Next]_vars /\ CrawlFairness

====
